---- MODULE Spec2Model ----
(***************************************************************************)
(* State-machine model of ffi-logger (src/src/lib.rs): FfiLogger, the sink *)
(* that forwards log records to a foreign callback, and LogHandle, which   *)
(* detaches the callback.  The `log` facade the code consults through      *)
(* log_enabled! (global max level, registered logger) is part of the state.*)
(*                                                                         *)
(* The callback slot is one AtomicPtr accessed with Relaxed loads and      *)
(* stores.  Accesses to a single atomic location are totally ordered       *)
(* (coherence) consistently with happens-before, so one interleaving step  *)
(* per load or store models them.                                          *)
(***************************************************************************)
EXTENDS Integers, Sequences, FiniteSets, Bags

\* ------------------------------------------------------------ bounds
NThreads == 2      \* threads calling into the library
MaxCalls == 2      \* log calls begun in one behaviour of Spec
MaxDeinits == 2    \* deinit calls begun in one behaviour
MaxLen == 2        \* bytes in a rendered message text (SpecSeq)

\* ------------------------------------------------------------ constants
\* log::LevelFilter::Off and log::Level (Error = 1 .. Trace = 5)
Off == 0
Error == 1
Warn == 2
Info == 3
Debug == 4
Trace == 5
\* log::STATIC_MAX_LEVEL with no max_level_* feature selected
STATIC_MAX_LEVEL == 5
\* the terminator byte and the placeholder of lib.rs:77
NUL == 0
SUB == 26
\* an ordinary text byte ('h')
LetterH == 104

Levels == Error..Trace
LevelFilters == Off..Trace
Threads == 1..NThreads

\* addresses: the null pointer, the callbacks a foreign caller may pass, and
\* the data tokens (None is Option::None)
Null == "null"
Callbacks == {"cbA"}
None == "none"
DataTokens == {None, "0xABCD"}

\* what a foreign callback written after the doc comment of FfiLogger::new
\* hands back: bytes written, or a negative error code
ForeignResults == {-5, 3}

\* rendered message texts: every byte string up to MaxLen over three bytes
MsgBytes == {NUL, SUB, LetterH}
Texts == UNION {[1..n -> MsgBytes] : n \in 0..MaxLen}
\* the records the log calls of Spec choose from ("h" at Info, "h\0" at
\* Error) and the levels its set_max_level calls choose from: Off admits
\* neither record, Warn the second, Trace both
CallRecords == {<<Info, <<LetterH>>>>, <<Error, <<LetterH, NUL>>>>}
CallFilters == {Off, Warn, Trace}

\* ------------------------------------------------------------ pure parts

\* a constructor that loses the data token
FfiLogger_new_drops_data(logger, d) == [logger |-> logger, data |-> None]

\* FfiLogger::new: the callback goes into the atomic slot, data is stored
FfiLogger_new(logger, d) == [logger |-> logger, data |-> d]

\* an `enabled` that answers for the callback slot
FfiLogger_enabled_if_live(b, lvl) == b.logger # Null

\* FfiLogger::enabled
FfiLogger_enabled(b, lvl) == TRUE

\* a null check that never fires
is_null_never(p) == FALSE

\* log_fn.is_null()
is_null(p) == p = Null

\* CString::new: fails on an interior NUL (the error gives the bytes back),
\* otherwise appends the terminator
CString_new(bytes) ==
  IF \E i \in 1..Len(bytes) : bytes[i] = NUL
    THEN [ok |-> FALSE, vec |-> bytes]
    ELSE [ok |-> TRUE, vec |-> Append(bytes, NUL)]

\* a sanitiser that leaves the bytes as they are
replace_nul_keeps(vec) == vec

\* the closure of lib.rs:77 mapped over err.into_vec()
replace_nul(vec) == [i \in 1..Len(vec) |-> IF vec[i] = NUL THEN SUB ELSE vec[i]]

\* the `message` of lib.rs:72-81; the second CString::new is unwrapped, so a
\* failure there is a panic
message_of(text) ==
  LET first == CString_new(text) IN
    IF first.ok THEN [panic |-> FALSE, cstr |-> first.vec]
    ELSE LET second == CString_new(replace_nul(first.vec)) IN
      IF second.ok THEN [panic |-> FALSE, cstr |-> second.vec]
      ELSE [panic |-> TRUE, cstr |-> <<>>]

\* a level check that forgets the global max level
level_enabled_static_only(lvl, ml) == lvl <= STATIC_MAX_LEVEL

\* the first two conjuncts of log_enabled!(lvl)
level_enabled(lvl, ml) == lvl <= STATIC_MAX_LEVEL /\ lvl <= ml

\* the last conjunct of log_enabled!(lvl): log::logger().enabled(..), as a set
\* of possible answers.  With no logger set the facade's NopLogger answers
\* false; another crate's logger answers as it likes.
sink_enabled(reg, b, lvl) ==
  CASE reg = "none" -> {FALSE}
    [] reg = "bridge" -> {FfiLogger_enabled(b, lvl)}
    [] OTHER -> BOOLEAN

\* callbacks called with the wrong severity, or with the message cut at its
\* last byte
callback_args_level_lost(b, lvl, cstr) ==
  [data |-> b.data, level |-> Error, message |-> cstr]
callback_args_cut(b, lvl, cstr) ==
  [data |-> b.data, level |-> lvl, message |-> SubSeq(cstr, 1, Len(cstr) - 1)]

\* the arguments of (log_fn)(self.data, record.level(), message.as_ptr())
callback_args(b, lvl, cstr) == [data |-> b.data, level |-> lvl, message |-> cstr]

\* what FfiLogger::log hands back to its caller: the Callback type has no
\* return value and `log` returns (), so whatever the foreign function
\* produced (r) is dropped
log_result(r) == [kind |-> "unit", n |-> 0]

\* a deinit that leaves the slot alone, one that installs another address,
\* and one that takes the data token out of the bridge
deinit_store_skipped(b) == b
deinit_store_other(b) == [b EXCEPT !.logger = "cbB"]
deinit_store_takes_data(b) == [logger |-> Null, data |-> None]

\* LogHandle::deinit: the store, and the value returned
deinit_store(b) == [b EXCEPT !.logger = Null]
deinit_result(b) == b.data

\* ------------------------------------------------------------ state
VARIABLES
  bridge,      \* the FfiLogger: [logger: the atomic slot, data]
  given,       \* the arguments FfiLogger::new was called with
  max_level,   \* the facade's global max level
  registered,  \* the facade's logger: "none", "bridge" or "other"
  th,          \* per thread: position and locals of the call it is in
  sent,        \* bag of <<level, text>> of the log calls begun
  admitted,    \* bag of <<level, text>> of the log calls that passed log_enabled!
  received,    \* bag of <<level, message>> the callback was invoked with
  deinitRets   \* the values deinit calls returned, in order of return

vars == <<bridge, given, max_level, registered, th, sent, admitted,
          received, deinitRets>>

\* a thread outside any call.  log_fn is what the log call loaded from the
\* slot; levelSeen whether the max level it read admitted its level (a set:
\* empty until read); sinkSeen what the registered logger answered; inv the
\* callback invocations it made; cbret what the foreign function produced;
\* result what the call handed back; afterDeinit: a deinit had returned when
\* the call began; offSinceBegin: the max level was Off when the call began
\* and has been Off since; ret: what `enabled` returned.
Idle ==
  [pc |-> "idle", level |-> Error, text |-> <<>>, log_fn |-> "unread",
   levelSeen |-> {}, sinkSeen |-> {}, inv |-> <<>>, cbret |-> 0,
   result |-> [kind |-> "none", n |-> 0],
   afterDeinit |-> FALSE, offSinceBegin |-> FALSE, ret |-> {}]

InDeinit == {t \in Threads : th[t].pc = "deinit_ret"}
\* the threads between the load of a callback and its invocation or the
\* return that log_enabled! forces
InWindow == {t \in Threads : th[t].pc \in {"log_level", "log_sink", "log_invoke"}}
DeinitsBegun == Len(deinitRets) + Cardinality(InDeinit)

Init ==
  /\ \E cb \in Callbacks, d \in DataTokens :
       /\ bridge = FfiLogger_new(cb, d)
       /\ given = [logger |-> cb, data |-> d]
  /\ max_level = Off
  /\ registered = "none"
  /\ th = [t \in Threads |-> Idle]
  /\ sent = EmptyBag
  /\ admitted = EmptyBag
  /\ received = EmptyBag
  /\ deinitRets = <<>>

\* ------------------------------------------------------------ the facade

\* log::set_max_level.  A call that raises the level ends "the level has been
\* Off since this call began" for the calls in flight.
SetMaxLevel(l) ==
  /\ l # max_level
  /\ max_level' = l
  /\ th' = [t \in Threads |->
              [th[t] EXCEPT !.offSinceBegin = th[t].offSinceBegin /\ l = Off]]
  /\ UNCHANGED <<bridge, given, registered, sent, admitted, received,
                 deinitRets>>

\* log::set_logger: succeeds once
SetLogger(which) ==
  /\ registered = "none"
  /\ registered' = which
  /\ UNCHANGED <<bridge, given, max_level, th, sent, admitted, received,
                 deinitRets>>

\* ------------------------------------------------------------ FfiLogger::log

\* a log that takes the callback out of the slot (a swap where the code
\* loads)
LogLoad_swaps(t, lvl, txt) ==
  /\ th[t].pc = "idle"
  /\ BagCardinality(sent) < MaxCalls
  /\ LET p == bridge.logger IN
       th' = [th EXCEPT ![t] =
                [Idle EXCEPT !.level = lvl, !.text = txt, !.log_fn = p,
                             !.afterDeinit = Len(deinitRets) > 0,
                             !.offSinceBegin = max_level = Off,
                             !.pc = IF is_null(p) THEN "log_ret" ELSE "log_level"]]
  /\ bridge' = [bridge EXCEPT !.logger = Null]
  /\ sent' = sent (+) SetToBag({<<lvl, txt>>})
  /\ UNCHANGED <<given, max_level, registered, admitted, received,
                 deinitRets>>

\* a thread enters log(record) and loads the slot (lib.rs:63-64); a null
\* slot makes it return at once
LogLoad(t, lvl, txt) ==
  /\ th[t].pc = "idle"
  /\ BagCardinality(sent) < MaxCalls
  /\ LET p == bridge.logger IN
       th' = [th EXCEPT ![t] =
                [Idle EXCEPT !.level = lvl, !.text = txt, !.log_fn = p,
                             !.afterDeinit = Len(deinitRets) > 0,
                             !.offSinceBegin = max_level = Off,
                             !.pc = IF is_null(p) THEN "log_ret" ELSE "log_level"]]
  /\ sent' = sent (+) SetToBag({<<lvl, txt>>})
  /\ UNCHANGED <<bridge, given, max_level, registered, admitted, received,
                 deinitRets>>

\* lib.rs:71, log_enabled!: the level against the static and global max level
LogCheckLevel(t) ==
  /\ th[t].pc = "log_level"
  /\ th' = [th EXCEPT ![t].levelSeen = {th[t].level <= max_level},
                      ![t].pc = IF level_enabled(th[t].level, max_level)
                                  THEN "log_sink" ELSE "log_ret"]
  /\ UNCHANGED <<bridge, given, max_level, registered, sent, admitted,
                 received, deinitRets>>

\* a check that waits until some logger is registered
LogCheckSink_waits(t) ==
  /\ th[t].pc = "log_sink"
  /\ registered # "none"
  /\ \E en \in sink_enabled(registered, bridge, th[t].level) :
       /\ th' = [th EXCEPT ![t].sinkSeen = {en},
                           ![t].pc = IF en THEN "log_invoke" ELSE "log_ret"]
       /\ admitted' = IF en THEN admitted (+) SetToBag({<<th[t].level, th[t].text>>})
                            ELSE admitted
  /\ UNCHANGED <<bridge, given, max_level, registered, sent, received,
                 deinitRets>>

\* lib.rs:71, log_enabled!: the registered logger's `enabled`
LogCheckSink(t) ==
  /\ th[t].pc = "log_sink"
  /\ \E en \in sink_enabled(registered, bridge, th[t].level) :
       /\ th' = [th EXCEPT ![t].sinkSeen = {en},
                           ![t].pc = IF en THEN "log_invoke" ELSE "log_ret"]
       /\ admitted' = IF en THEN admitted (+) SetToBag({<<th[t].level, th[t].text>>})
                            ELSE admitted
  /\ UNCHANGED <<bridge, given, max_level, registered, sent, received,
                 deinitRets>>

\* lib.rs:72-83: build the message, call the loaded callback
LogInvoke(t) ==
  /\ th[t].pc = "log_invoke"
  /\ LET m == message_of(th[t].text) IN
       IF m.panic
         THEN /\ th' = [th EXCEPT ![t].pc = "panicked"]
              /\ UNCHANGED received
         ELSE \E r \in ForeignResults :
              LET a == callback_args(bridge, th[t].level, m.cstr) IN
                /\ th' = [th EXCEPT ![t].inv = Append(th[t].inv, a),
                                    ![t].cbret = r,
                                    ![t].result = log_result(r),
                                    ![t].pc = "log_ret"]
                /\ received' = received (+) SetToBag({<<a.level, a.message>>})
  /\ UNCHANGED <<bridge, given, max_level, registered, sent, admitted,
                 deinitRets>>

\* the call has returned; the thread goes on
LogReturn(t) ==
  /\ th[t].pc = "log_ret"
  /\ th' = [th EXCEPT ![t] = Idle]
  /\ UNCHANGED <<bridge, given, max_level, registered, sent, admitted,
                 received, deinitRets>>

\* ------------------------------------------------------------ enabled, flush

\* lib.rs:58-60
EnabledCall(t, lvl) ==
  /\ th[t].pc = "idle"
  /\ th' = [th EXCEPT ![t] = [Idle EXCEPT !.pc = "enabled_ret",
                                          !.ret = {FfiLogger_enabled(bridge, lvl)}]]
  /\ UNCHANGED <<bridge, given, max_level, registered, sent, admitted,
                 received, deinitRets>>

EnabledReturn(t) ==
  /\ th[t].pc = "enabled_ret"
  /\ th' = [th EXCEPT ![t] = Idle]
  /\ UNCHANGED <<bridge, given, max_level, registered, sent, admitted,
                 received, deinitRets>>

\* a flush that calls the callback with an empty message
Flush_invokes(t) ==
  /\ th[t].pc = "idle"
  /\ bridge.logger # Null
  /\ received' = received (+) SetToBag({<<Error, <<NUL>>>>})
  /\ UNCHANGED <<bridge, given, max_level, registered, th, sent, admitted,
                 deinitRets>>

\* fn flush(&self) {}: reads and writes nothing
Flush(t) ==
  /\ th[t].pc = "idle"
  /\ UNCHANGED vars

\* ------------------------------------------------------------ LogHandle

\* LogHandle::new(&bridge): the thread now holds a handle on the bridge
LogHandleNew(t) ==
  /\ th[t].pc = "idle"
  /\ th' = [th EXCEPT ![t] = [Idle EXCEPT !.pc = "handle"]]
  /\ UNCHANGED <<bridge, given, max_level, registered, sent, admitted,
                 received, deinitRets>>

\* the handle goes out of scope (LogHandle has no destructor)
LogHandleDrop(t) ==
  /\ th[t].pc = "handle"
  /\ th' = [th EXCEPT ![t] = Idle]
  /\ UNCHANGED <<bridge, given, max_level, registered, sent, admitted,
                 received, deinitRets>>

\* a thread enters deinit through its handle and stores null (lib.rs:102)
DeinitStore(t) ==
  /\ th[t].pc = "handle"
  /\ DeinitsBegun < MaxDeinits
  /\ bridge' = deinit_store(bridge)
  /\ th' = [th EXCEPT ![t].pc = "deinit_ret"]
  /\ UNCHANGED <<given, max_level, registered, sent, admitted, received,
                 deinitRets>>

\* a deinit that drains the log calls in flight before it returns
DeinitReturn_waits(t) ==
  /\ th[t].pc = "deinit_ret"
  /\ InWindow = {}
  /\ deinitRets' = Append(deinitRets, deinit_result(bridge))
  /\ th' = [th EXCEPT ![t].pc = "handle"]
  /\ UNCHANGED <<bridge, given, max_level, registered, sent, admitted,
                 received>>

\* lib.rs:104: the value handed back; the handle (&self) stays usable
DeinitReturn(t) ==
  /\ th[t].pc = "deinit_ret"
  /\ deinitRets' = Append(deinitRets, deinit_result(bridge))
  /\ th' = [th EXCEPT ![t].pc = "handle"]
  /\ UNCHANGED <<bridge, given, max_level, registered, sent, admitted,
                 received>>

\* ------------------------------------------------------------ specification
Next ==
  \/ \E l \in CallFilters : SetMaxLevel(l)
  \/ \E w \in {"bridge", "other"} : SetLogger(w)
  \/ \E t \in Threads, r \in CallRecords : LogLoad(t, r[1], r[2])
  \/ \E t \in Threads : LogCheckLevel(t)
  \/ \E t \in Threads : LogCheckSink(t)
  \/ \E t \in Threads : LogInvoke(t)
  \/ \E t \in Threads : LogReturn(t)
  \/ \E t \in Threads, lvl \in Levels : EnabledCall(t, lvl)
  \/ \E t \in Threads : EnabledReturn(t)
  \/ \E t \in Threads : Flush(t)
  \/ \E t \in Threads : LogHandleNew(t)
  \/ \E t \in Threads : LogHandleDrop(t)
  \/ \E t \in Threads : DeinitStore(t)
  \/ \E t \in Threads : DeinitReturn(t)

Spec == Init /\ [][Next]_vars

\* A thread inside a call keeps running: the scheduler gives every thread
\* its turn and the foreign callback returns.
ThreadStep(t) ==
  \/ LogCheckLevel(t)
  \/ LogCheckSink(t)
  \/ LogInvoke(t)
  \/ LogReturn(t)
  \/ EnabledReturn(t)
  \/ DeinitReturn(t)

SpecFair == Spec /\ \A t \in Threads : WF_vars(ThreadStep(t))

\* ------------------------------------------------------------ one call, every input
\* One log call by thread 1, for every severity, every text up to MaxLen and
\* every state of the facade, with thread 2 free to deinit around it.
LogThread == 1
OwnerThread == 2

InitSeq ==
  /\ \E cb \in Callbacks, d \in DataTokens :
       /\ bridge = FfiLogger_new(cb, d)
       /\ given = [logger |-> cb, data |-> d]
  /\ max_level \in LevelFilters
  /\ registered \in {"none", "bridge", "other"}
  /\ th = [t \in Threads |-> Idle]
  /\ sent = EmptyBag
  /\ admitted = EmptyBag
  /\ received = EmptyBag
  /\ deinitRets = <<>>

LogOnce(lvl, txt) == sent = EmptyBag /\ LogLoad(LogThread, lvl, txt)

NextSeq ==
  \/ \E lvl \in Levels, txt \in Texts : LogOnce(lvl, txt)
  \/ LogCheckLevel(LogThread)
  \/ LogCheckSink(LogThread)
  \/ LogInvoke(LogThread)
  \/ LogReturn(LogThread)
  \/ LogHandleNew(OwnerThread)
  \/ DeinitStore(OwnerThread)
  \/ DeinitReturn(OwnerThread)

SpecSeq == InitSeq /\ [][NextSeq]_vars

\* ------------------------------------------------------------ properties

\* the encoding a message text is to arrive as: every NUL replaced by SUB,
\* one terminator appended
Encoding(text) ==
  [i \in 1..(Len(text) + 1) |->
     IF i = Len(text) + 1 THEN NUL
     ELSE IF text[i] = NUL THEN SUB ELSE text[i]]

\* the callback invocation a log call with this thread's record is to make
Expected(t) ==
  [data |-> given.data, level |-> th[t].level, message |-> Encoding(th[t].text)]

\* no thread is inside a log call
NoLogInFlight ==
  \A t \in Threads : th[t].pc \notin {"log_level", "log_sink", "log_invoke", "log_ret"}

\* C1: a log call that begins after a deinit call has returned loads null
\* from the slot and invokes no callback, whatever its record.
C1_NoInvokeAfterDeinit ==
  \A t \in Threads :
    th[t].afterDeinit =>
      /\ th[t].log_fn = Null
      /\ th[t].inv = <<>>
      /\ th[t].pc = "log_ret"

C1_Witness ==
  \E t \in Threads :
    /\ th[t].afterDeinit
    /\ th[t].pc = "log_ret"
    /\ max_level = Trace
    /\ registered = "bridge"

C3_Orig ==
  \A i \in 1..Len(deinitRets) :
    deinitRets[i] = IF i = 1 THEN given.data ELSE None

\* C4: the first deinit call to return hands back the data token given to
\* new, whatever log calls ran before it.
C4_RoundTrip ==
  Len(deinitRets) >= 1 => deinitRets[1] = given.data

C4_Witness ==
  /\ Len(deinitRets) >= 1
  /\ given.data = "0xABCD"
  /\ received # EmptyBag

\* C5: the message a log call hands to the callback is one byte longer than
\* the text, ends with the terminator, has no terminator before that, and
\* agrees with the text byte for byte except that NUL became SUB; no call
\* panics, and a call admitted by log_enabled! returns having made its
\* invocation.
C5_MessageEncoding ==
  \A t \in Threads :
    /\ th[t].pc # "panicked"
    /\ (th[t].pc = "log_ret" /\ th[t].sinkSeen = {TRUE}) => Len(th[t].inv) = 1
    /\ \A k \in 1..Len(th[t].inv) :
         LET m == th[t].inv[k].message
             x == th[t].text
         IN /\ Len(m) = Len(x) + 1
            /\ m[Len(m)] = NUL
            /\ \A i \in 1..Len(x) :
                 /\ m[i] # NUL
                 /\ m[i] = IF x[i] = NUL THEN SUB ELSE x[i]

C5_Witness ==
  /\ th[LogThread].pc = "log_ret"
  /\ Len(th[LogThread].inv) = 1
  /\ Len(th[LogThread].text) = MaxLen
  /\ \E i \in 1..MaxLen : th[LogThread].text[i] = NUL

\* the bag `got` of <<level, message>> pairs is the bag `put` of
\* <<level, text>> pairs with every text encoded (Encoding is one-to-one on
\* the texts of CallRecords)
SameRecords(got, put) ==
  /\ \A r \in CallRecords :
       CopiesIn(<<r[1], Encoding(r[2])>>, got) = CopiesIn(r, put)
  /\ BagToSet(got) \subseteq {<<r[1], Encoding(r[2])>> : r \in CallRecords}

C7_OffStopsCalls ==
  \A t \in Threads :
    th[t].offSinceBegin =>
      /\ th[t].inv = <<>>
      /\ th[t].pc \in {"log_level", "log_ret"}

\* such a call has returned, the slot still holding the callback
C7_Witness ==
  \E t \in Threads :
    /\ th[t].offSinceBegin
    /\ th[t].pc = "log_ret"
    /\ th[t].log_fn # Null
    /\ bridge.logger # Null
    /\ registered = "bridge"
    /\ deinitRets = <<>>

C9_EnabledAlways ==
  \A t \in Threads : th[t].ret \subseteq {TRUE}

\* `enabled` answering after deinit cleared the slot
C9_Witness ==
  \E t \in Threads :
    /\ th[t].pc = "enabled_ret"
    /\ th[t].ret = {TRUE}
    /\ bridge.logger = Null

\* C10 as stated: the call that invoked the callback reports the bytes
\* written when the callback produced N >= 0, and fails with the code E when
\* it produced -E.
C10_Orig ==
  \A t \in Threads :
    (th[t].pc = "log_ret" /\ th[t].inv # <<>>) =>
      th[t].result = IF th[t].cbret >= 0
                       THEN [kind |-> "written", n |-> th[t].cbret]
                       ELSE [kind |-> "error", n |-> 0 - th[t].cbret]

\* C11: the slot holds the address given to new or null; a step changes it
\* only from that address to null, so it never holds a second address and,
\* once null, stays null.
C11_SlotMonotone ==
  /\ [](bridge.logger \in {given.logger, Null})
  /\ [][\/ bridge.logger' = bridge.logger
        \/ (bridge.logger = given.logger /\ bridge.logger' = Null)]_vars

\* the slot null after a second deinit, log calls having run
C11_Witness ==
  /\ bridge.logger = Null
  /\ Len(deinitRets) = 2
  /\ sent # EmptyBag

\* C12: deinit does not wait for log calls: a thread inside deinit can take
\* its return step whatever the other threads are doing, log calls in flight
\* included; and a step that invokes the callback after a deinit has
\* returned belongs to a call that had loaded the callback before that (it
\* did not begin after the return) and passes the very token deinit handed
\* back.
C12_DeinitDoesNotWait ==
  /\ [](\A t \in Threads :
          th[t].pc = "deinit_ret" => ENABLED DeinitReturn(t))
  /\ [][\A t \in Threads :
          (Len(deinitRets) > 0 /\ th[t].inv = <<>> /\ th'[t].inv # <<>>) =>
            /\ th[t].log_fn = given.logger
            /\ ~th[t].afterDeinit
            /\ Len(th'[t].inv) = 1
            /\ th'[t].inv[1].data = deinitRets[1]]_vars

\* the race: deinit has returned 0xABCD to its caller and a call that loaded
\* the callback before the store is at the callback call, 0xABCD its argument
C12_Witness ==
  \E t \in Threads :
    /\ th[t].pc = "log_invoke"
    /\ th[t].log_fn = given.logger
    /\ bridge.data = "0xABCD"
    /\ deinitRets = <<"0xABCD">>

\* C13: a step that invokes with the slot already null belongs to a call that
\* had loaded the callback; a call that loaded null invokes nothing; and once
\* the slot is null the set of calls between load and invocation only
\* shrinks, the store itself leaving it as it is and every late invocation
\* taking its call out of it, so there are at most as many late invocations
\* as calls in that set at the store.
C13_WindowBounded ==
  /\ [](\A t \in Threads :
          th[t].log_fn = Null => (th[t].inv = <<>> /\ th[t].pc = "log_ret"))
  /\ [][/\ bridge.logger = Null => InWindow' \subseteq InWindow
        /\ (bridge.logger # Null /\ bridge.logger' = Null) => InWindow' = InWindow
        /\ \A t \in Threads :
             (bridge.logger = Null /\ th[t].inv = <<>> /\ th'[t].inv # <<>>)
               => /\ t \in InWindow /\ t \notin InWindow'
                  /\ th[t].log_fn = given.logger
                  /\ ~th[t].afterDeinit]_vars

\* the slot null, one call at its late invocation, another having loaded null
C13_Witness ==
  \E t, u \in Threads :
    /\ bridge.logger = Null
    /\ th[t].pc = "log_invoke"
    /\ th[u].pc = "log_ret"
    /\ th[u].log_fn = Null

\* C14: no step changes the bridge's data field; it is the value given to
\* new, and so is the data of every callback invocation and the value every
\* deinit call returned.
C14_DataImmutable ==
  /\ [](/\ bridge.data = given.data
        /\ \A t \in Threads : \A k \in 1..Len(th[t].inv) :
             th[t].inv[k].data = given.data
        /\ \A i \in 1..Len(deinitRets) : deinitRets[i] = given.data)
  /\ [][bridge.data' = bridge.data]_vars

\* two deinit calls returned and a callback invoked
C14_Witness ==
  /\ given.data = "0xABCD"
  /\ Len(deinitRets) = 2
  /\ \E t \in Threads : th[t].inv # <<>>

\* C15: a step that changes the bridge (slot or data) is a deinit store; and
\* the step of a log call that loads null takes the thread straight to its
\* return, with no invocation, no result and no panic, the bridge, the
\* facade and what the callback received left as they were.
C15_OnlyDeinitWrites ==
  /\ [](\A t \in Threads : th[t].pc # "panicked")
  /\ [][/\ bridge' # bridge =>
             \E t \in Threads : th[t].pc = "handle" /\ th'[t].pc = "deinit_ret"
        /\ \A t \in Threads :
             (th[t].pc = "idle" /\ th'[t].pc # "idle" /\ th'[t].log_fn = Null) =>
               /\ th'[t].pc = "log_ret"
               /\ th'[t].inv = <<>>
               /\ th'[t].result = Idle.result
               /\ bridge' = bridge
               /\ received' = received
               /\ admitted' = admitted
               /\ max_level' = max_level
               /\ registered' = registered
               /\ deinitRets' = deinitRets]_vars

\* a call that loaded null between deinit's store and its return
C15_Witness ==
  \E t \in Threads :
    /\ th[t].pc = "log_ret"
    /\ th[t].log_fn = Null
    /\ ~th[t].afterDeinit
    /\ th[t].inv = <<>>
    /\ bridge.data = "0xABCD"

\* C17: a call has made at most one invocation, and only if it loaded the
\* callback; every step that adds to what the callback received is the
\* invoking step of a log call that loaded the callback and had not invoked
\* yet, adds exactly one invocation and ends that call's work; so the
\* invocations never outnumber the calls admitted, nor the calls begun.
C17_NoSpuriousInvocation ==
  /\ [](/\ \A t \in Threads :
             /\ Len(th[t].inv) <= 1
             /\ th[t].inv # <<>> => (th[t].pc = "log_ret" /\ th[t].log_fn = given.logger)
        /\ BagCardinality(received) <= BagCardinality(admitted)
        /\ BagCardinality(admitted) <= BagCardinality(sent))
  /\ [][received' # received =>
          /\ BagCardinality(received') = BagCardinality(received) + 1
          /\ \E t \in Threads :
               /\ th[t].pc = "log_invoke"
               /\ th[t].log_fn = given.logger
               /\ th[t].inv = <<>>
               /\ Len(th'[t].inv) = 1
               /\ th'[t].pc = "log_ret"]_vars

\* both calls delivered, a deinit returned
C17_Witness ==
  /\ BagCardinality(received) = MaxCalls
  /\ BagCardinality(sent) = MaxCalls
  /\ Len(deinitRets) >= 1

\* the positions inside a log, enabled or deinit call
InCall(t) ==
  th[t].pc \in {"log_level", "log_sink", "log_invoke", "log_ret",
                "enabled_ret", "deinit_ret"}

\* C16: a thread inside a log or deinit call can always take its next step,
\* whatever the other threads are doing, and under fair scheduling every
\* such call comes to its end.
C16_Progress ==
  /\ [](\A t \in Threads : InCall(t) => ENABLED ThreadStep(t))
  /\ \A t \in Threads : InCall(t) ~> ~InCall(t)

\* a log call and a deinit call in flight together
C16_Witness ==
  \E t, u \in Threads :
    /\ th[t].pc = "log_invoke"
    /\ th[u].pc = "deinit_ret"

====
